---- MODULE Spec2Model ----
(***************************************************************************)
(* Model of the "add user" form controller, api/templates/addUserForm.js.  *)
(*                                                                         *)
(* The script owns two page-wide slots (window.lastUsername and            *)
(* window.addUserMessageBoxLink), a submit listener that encodes the form  *)
(* and posts it with fetch, the response continuation addUserSuccess, and  *)
(* the click handler copyAddUserMessageLink.  JavaScript is single         *)
(* threaded: every handler runs to completion, so each handler is one      *)
(* action; the only suspension points are the two promises of the fetch    *)
(* chain (the fetch itself and response.json()).                           *)
(***************************************************************************)
EXTENDS Naturals, Sequences, FiniteSets, TLC

VARIABLES
    location,              \* window.location: [protocol, host]
    cookie,                \* value of the anti-forgery cookie
    usernameInput,         \* addUserUsernameInput.value
    pgroupInput,           \* addUserPgroupInput.value, a sequence of characters
    settingsBox,           \* addUserSettingsDiv.children: sequence of [name, checked]
    lastUsername,          \* window.lastUsername
    addUserMessageBoxLink, \* window.addUserMessageBoxLink
    messageText,           \* addUserMessageBoxText.textContent
    messageBoxDisplay,     \* addUserMessageBox.style.display
    linkElmDisplay,        \* addUserMessageBoxLinkElm.style.display
    clipboard,             \* the system clipboard
    requests,              \* one record per fetch call, in submit order; its field
                           \* form is the form as the submit event found it
    renderLog              \* indices of requests, in the order addUserSuccess ran

vars == <<location, cookie, usernameInput, pgroupInput, settingsBox, lastUsername,
          addUserMessageBoxLink, messageText, messageBoxDisplay, linkElmDisplay,
          clipboard, requests, renderLog>>

formVars == <<usernameInput, pgroupInput, settingsBox>>
envVars == <<location, cookie>>
uiVars == <<messageText, messageBoxDisplay, linkElmDisplay>>
slotVars == <<lastUsername, addUserMessageBoxLink>>

-----------------------------------------------------------------------------
(* Bounds of the model.                                                    *)

MaxSubmits == 2

-----------------------------------------------------------------------------
(* JavaScript values.                                                      *)

Null == [t |-> "null"]
Undefined == [t |-> "undefined"]
NaN == [t |-> "NaN"]
Str(s) == [t |-> "string", v |-> s]
Num(n) == [t |-> "number", v |-> n]
Bool(b) == [t |-> "boolean", v |-> b]

\* ToString, as applied by the + operator to a non-string operand.
JsToString(x) ==
    CASE x.t = "string" -> x.v
      [] x.t = "null" -> "null"
      [] x.t = "undefined" -> "undefined"
      [] x.t = "NaN" -> "NaN"
      [] x.t = "boolean" -> IF x.v THEN "true" ELSE "false"
      [] OTHER -> "?"

\* ToBoolean, as applied by if (...).
Truthy(x) ==
    CASE x.t = "boolean" -> x.v
      [] x.t = "string" -> x.v # ""
      [] x.t = "number" -> x.v # 0
      [] OTHER -> FALSE

\* a | b on non-negative integers below 2^31, where int32 conversion is the
\* identity.
RECURSIVE BitOr(_, _)
BitOr(a, b) ==
    IF a = 0 THEN b
    ELSE IF b = 0 THEN a
    ELSE (IF a % 2 = 1 \/ b % 2 = 1 THEN 1 ELSE 0) + 2 * BitOr(a \div 2, b \div 2)

\* ToInt32, as applied by |= to its right operand: NaN becomes 0.
ToInt32(x) == IF x.t = "number" THEN x.v ELSE 0

\* value * checked: the boolean converts to 1 or 0, undefined to NaN.
Times(value, isChecked) ==
    IF value.t = "number" THEN Num(value.v * (IF isChecked THEN 1 ELSE 0)) ELSE NaN

Digits == <<"0", "1", "2", "3", "4", "5", "6", "7", "8", "9">>
DigitValue(c) == (CHOOSE i \in 1..10 : Digits[i] = c) - 1
IsDigit(c) == \E i \in 1..10 : Digits[i] = c

RECURSIVE Decimal(_, _)
Decimal(chars, acc) ==
    IF chars = <<>> THEN acc ELSE Decimal(Tail(chars), 10 * acc + DigitValue(Head(chars)))

\* Number(string): the empty string is 0, a digit string its decimal value,
\* anything else NaN.
Number(chars) ==
    IF \A i \in 1..Len(chars) : IsDigit(chars[i]) THEN Num(Decimal(chars, 0)) ELSE NaN

\* JSON.stringify of a number: NaN serialises as null.
JsonNumber(x) == IF x.t = "number" THEN x ELSE Null

-----------------------------------------------------------------------------
(* Values the server templates into the script.                            *)

AlreadyExistsError == "AlreadyExists"
UsernameTooLong == "UsernameTooLong"
UsernameTooShort == "UsernameTooShort"
CannotBeNamedAnonymous == "CannotBeNamedAnonymous"
UsernameInvalidCharacters == "UsernameInvalidCharacters"

RegisterPath == "/register"
AddUserPath == "/add_user"

\* Parts of the page the script reads but does not define.
settingsValues == [a |-> 1, b |-> 2, c |-> 4]
getCookie == cookie
initialMessageText == ""
initialMessageBoxDisplay == "none"
initialLinkElmDisplay == "none"

\* Variant: a name the registry does not hold is given the next free bit.
LookupNextFreeBit(name) ==
    IF name \in DOMAIN settingsValues THEN Num(settingsValues[name]) ELSE Num(8)

\* settingsValues[name]: undefined for a name the registry does not hold.
Lookup(name) ==
    IF name \in DOMAIN settingsValues THEN Num(settingsValues[name]) ELSE Undefined

-----------------------------------------------------------------------------
(* Inputs the environment can supply.                                      *)

Usernames == {"alice", "bob"}
PgroupValues == {<<>>, <<"2">>, <<"1", "0">>}
Locations == {[protocol |-> "http:", host |-> "panel.example"],
              [protocol |-> "https:", host |-> "localhost:5000"]}
Tokens == {"abc123", "a&b=/?"}
CsrfTokens == {"csrf1"}
ControlNames == {"a", "b", "c", "x"}
Statuses == {200, 400}

SuccessData(token) == [success |-> Bool(TRUE), reason |-> Undefined, slot |-> Str(token)]
FailureData(reason) == [success |-> Bool(FALSE), reason |-> reason, slot |-> Undefined]

KnownReasons == {AlreadyExistsError, UsernameTooLong, UsernameTooShort,
                 CannotBeNamedAnonymous, UsernameInvalidCharacters}

\* Every JSON object the response handling distinguishes.
AllData ==
    {SuccessData(t) : t \in Tokens}
    \cup {FailureData(Str(r)) : r \in KnownReasons \cup {"", "ServerError"}}
    \cup {FailureData(Undefined),
          [success |-> Undefined, reason |-> Str(UsernameTooLong), slot |-> Undefined]}

\* The responses used where several submissions overlap.
FewData == {SuccessData(t) : t \in Tokens} \cup {FailureData(Str(UsernameTooLong))}

\* Sequences over S without repetition.
RECURSIVE Arrangements(_)
Arrangements(S) ==
    {<<>>} \cup UNION {{<<x>> \o rest : rest \in Arrangements(S \ {x})} : x \in S}

\* Every settings box over the control names: any subset of the controls, in
\* any order, each checked or not.
AllBoxes ==
    UNION {{[i \in 1..Len(names) |-> [name |-> names[i], checked |-> i \in on]] :
              on \in SUBSET (1..Len(names))} : names \in Arrangements(ControlNames)}

-----------------------------------------------------------------------------
(* The script.                                                             *)

\* Lines 48-51: the loop over addUserSettingsDiv.children.
RECURSIVE settingsLoop(_, _)
settingsLoop(children, settingsValue) ==
    IF children = <<>> THEN settingsValue
    ELSE settingsLoop(Tail(children),
                      BitOr(settingsValue,
                            ToInt32(Times(Lookup(Head(children).name),
                                          Head(children).checked))))

\* Variant: the loop forgets to multiply by checked.
RECURSIVE settingsLoopAll(_, _)
settingsLoopAll(children, acc) ==
    IF children = <<>> THEN acc
    ELSE settingsLoopAll(Tail(children),
                         BitOr(acc, ToInt32(Lookup(Head(children).name))))

settingsValueAllControls(children) == settingsLoopAll(children, 0)

\* Variant: the mask is declared outside the listener and keeps the bits of
\* the submission before.
settingsValueAccumulated(children) ==
    settingsLoop(children,
                 IF requests = <<>> THEN 0
                 ELSE requests[Len(requests)].body.settings.v)

settingsValue(children) == settingsLoop(children, 0)

\* Variant: the permission group is sent as the control's raw string.
RequestBodyRawPgroup(name, pgroupValue, settings) ==
    [username |-> name,
     permission_group |-> Str(pgroupValue),
     settings |-> Num(settings)]

\* Lines 60-64: the object handed to JSON.stringify.
RequestBody(name, pgroupValue, settings) ==
    [username |-> name,
     permission_group |-> JsonNumber(Number(pgroupValue)),
     settings |-> Num(settings)]

\* Variant: the message reads the username field instead of the slot.
SuccessTextFromField(name) == usernameInput \o " was added."

\* Line 17.
SuccessText(name) == JsToString(name) \o " was added."

\* Variant: the link takes the scheme of the page.
RegistrationLinkPageScheme(loc, token) ==
    loc.protocol \o "//" \o loc.host \o RegisterPath \o "?user_slot=" \o JsToString(token)

\* Line 19.
RegistrationLink(loc, token) ==
    "https://" \o loc.host \o RegisterPath \o "?user_slot=" \o JsToString(token)

\* Variant: the "too short" case lacks its break and falls through.
FailureTextFallThrough(reason) ==
    CASE reason = Str(AlreadyExistsError) -> "Nutzername wird bereits verwendet."
      [] reason = Str(UsernameTooLong) -> "Nutzername muss kürzer sein."
      [] reason = Str(UsernameTooShort) -> "Dein Nutzername kann nicht 'Anonymous' sein."
      [] reason = Str(CannotBeNamedAnonymous) -> "Dein Nutzername kann nicht 'Anonymous' sein."
      [] reason = Str(UsernameInvalidCharacters) ->
             "Nutzername muss aus den Zeichen a-z, A-Z, 0-9, _ und - bestehen."
      [] OTHER -> "Konnte nicht erstellt werden."

\* Lines 22-40: the switch on data.reason (strict equality with each case).
FailureText(reason) ==
    CASE reason = Str(AlreadyExistsError) -> "Nutzername wird bereits verwendet."
      [] reason = Str(UsernameTooLong) -> "Nutzername muss kürzer sein."
      [] reason = Str(UsernameTooShort) -> "Nutzername muss länger sein."
      [] reason = Str(CannotBeNamedAnonymous) -> "Dein Nutzername kann nicht 'Anonymous' sein."
      [] reason = Str(UsernameInvalidCharacters) ->
             "Nutzername muss aus den Zeichen a-z, A-Z, 0-9, _ und - bestehen."
      [] OTHER -> "Konnte nicht erstellt werden."

\* Variant: line 42 is missing, the panel keeps its display.
KeptDisplay == messageBoxDisplay

\* Line 42.
ShownDisplay == ""

\* Variant: the test of the success flag is inverted.
addUserSuccessInverted(data) ==
    /\ IF ~Truthy(data.success)
       THEN /\ messageText' = SuccessText(lastUsername)
            /\ linkElmDisplay' = ""
            /\ addUserMessageBoxLink' = RegistrationLink(location, data.slot)
       ELSE /\ messageText' = FailureText(data.reason)
            /\ UNCHANGED <<linkElmDisplay, addUserMessageBoxLink>>
    /\ messageBoxDisplay' = ShownDisplay

\* Variant: the Failure branch hides the link element.
addUserSuccessHidingLink(data) ==
    /\ IF Truthy(data.success)
       THEN /\ messageText' = SuccessText(lastUsername)
            /\ linkElmDisplay' = ""
            /\ addUserMessageBoxLink' = RegistrationLink(location, data.slot)
       ELSE /\ messageText' = FailureText(data.reason)
            /\ linkElmDisplay' = "none"
            /\ UNCHANGED addUserMessageBoxLink
    /\ messageBoxDisplay' = ShownDisplay

\* Lines 14-43.
addUserSuccess(data) ==
    /\ IF Truthy(data.success)
       THEN /\ messageText' = SuccessText(lastUsername)
            /\ linkElmDisplay' = ""
            /\ addUserMessageBoxLink' = RegistrationLink(location, data.slot)
       ELSE /\ messageText' = FailureText(data.reason)
            /\ UNCHANGED <<linkElmDisplay, addUserMessageBoxLink>>
    /\ messageBoxDisplay' = ShownDisplay

\* Variant: the handler copies the message text.
copyMessageText ==
    /\ clipboard' = messageText
    /\ UNCHANGED <<envVars, formVars, slotVars, uiVars, requests, renderLog>>

\* Lines 11-13.
copyAddUserMessageLink ==
    /\ clipboard' = addUserMessageBoxLink
    /\ UNCHANGED <<envVars, formVars, slotVars, uiVars, requests, renderLog>>

\* Variant: the placeholder is written only while the panel is hidden.
PlaceholderUnlessShown == IF messageBoxDisplay = "" THEN messageText ELSE "..."

\* Line 45.
Placeholder == "..."

\* Variant: the slot is only written while no request is outstanding.
CapturedUsernameUnlessPending ==
    IF \E r \in 1..Len(requests) : requests[r].pc \in {"fetch", "json"}
    THEN lastUsername
    ELSE Str(usernameInput)

\* Line 47.
CapturedUsername == Str(usernameInput)

\* Variant: the token is read once and reused by later submissions.
CsrfHeaderOfFirstRequest == IF requests = <<>> THEN getCookie ELSE requests[1].csrf

\* Line 57: the value of the anti-forgery header.
CsrfHeader == getCookie

\* Lines 44-66: the submit listener, up to and including the fetch call.
submit(limit) ==
    /\ Len(requests) < limit
    /\ messageText' = Placeholder
    /\ lastUsername' = CapturedUsername
    /\ requests' = Append(requests,
           [url |-> AddUserPath,
            method |-> "POST",
            csrf |-> CsrfHeader,
            form |-> [username |-> usernameInput, pgroup |-> pgroupInput,
                      box |-> settingsBox],
            body |-> RequestBody(lastUsername', pgroupInput, settingsValue(settingsBox)),
            pc |-> "fetch",
            status |-> 0,
            data |-> Undefined])
    /\ UNCHANGED <<envVars, formVars, addUserMessageBoxLink, messageBoxDisplay,
                   linkElmDisplay, clipboard, renderLog>>

\* Line 65: the fetch promise fulfils with a response of any status.
fetchFulfilled(r, status) ==
    /\ requests[r].pc = "fetch"
    /\ requests' = [requests EXCEPT ![r].pc = "json", ![r].status = status]
    /\ UNCHANGED <<envVars, formVars, slotVars, uiVars, clipboard, renderLog>>

\* Line 65: the fetch promise rejects (network error); no handler is attached.
fetchRejected(r) ==
    /\ requests[r].pc = "fetch"
    /\ requests' = [requests EXCEPT ![r].pc = "networkError"]
    /\ UNCHANGED <<envVars, formVars, slotVars, uiVars, clipboard, renderLog>>

\* Line 65: response.json() fulfils and addUserSuccess runs with the object.
jsonFulfilled(r, data) ==
    /\ requests[r].pc = "json"
    /\ requests' = [requests EXCEPT ![r].pc = "done", ![r].data = data]
    /\ renderLog' = Append(renderLog, r)
    /\ addUserSuccess(data)
    /\ UNCHANGED <<envVars, formVars, lastUsername, clipboard>>

\* Variant: a catch handler renders the generic failure.
jsonRejectedRendered(r) ==
    /\ requests[r].pc = "json"
    /\ requests' = [requests EXCEPT ![r].pc = "parseError"]
    /\ messageText' = "Konnte nicht erstellt werden."
    /\ messageBoxDisplay' = ""
    /\ UNCHANGED <<envVars, formVars, slotVars, linkElmDisplay, clipboard, renderLog>>

\* Line 65: response.json() rejects (the body is not JSON); no handler is attached.
jsonRejected(r) ==
    /\ requests[r].pc = "json"
    /\ requests' = [requests EXCEPT ![r].pc = "parseError"]
    /\ UNCHANGED <<envVars, formVars, slotVars, uiVars, clipboard, renderLog>>

\* The operator edits the form.
EditUsername(u) ==
    /\ usernameInput # u
    /\ usernameInput' = u
    /\ UNCHANGED <<envVars, pgroupInput, settingsBox, slotVars, uiVars, clipboard,
                   requests, renderLog>>

EditPgroup(p) ==
    /\ pgroupInput # p
    /\ pgroupInput' = p
    /\ UNCHANGED <<envVars, usernameInput, settingsBox, slotVars, uiVars, clipboard,
                   requests, renderLog>>

ToggleSetting(i) ==
    /\ settingsBox' = [settingsBox EXCEPT ![i].checked = ~settingsBox[i].checked]
    /\ UNCHANGED <<envVars, usernameInput, pgroupInput, slotVars, uiVars, clipboard,
                   requests, renderLog>>

\* The server rotates the anti-forgery cookie.
RotatedCsrfTokens == {"csrf1", "csrf2"}

SetCookie(t) ==
    /\ cookie # t
    /\ cookie' = t
    /\ UNCHANGED <<location, formVars, slotVars, uiVars, clipboard, requests, renderLog>>

\* The operator submits only while no request is outstanding.
submitWhenIdle ==
    /\ \A r \in 1..Len(requests) : requests[r].pc \notin {"fetch", "json"}
    /\ submit(MaxSubmits)

-----------------------------------------------------------------------------
(* Specifications.                                                         *)

\* The page right after the script ran (lines 1 and 10), with the given form.
InitWith(locs, boxes, users, pgroups) ==
    /\ location \in locs
    /\ cookie \in CsrfTokens
    /\ usernameInput \in users
    /\ pgroupInput \in pgroups
    /\ settingsBox \in boxes
    /\ lastUsername = Null
    /\ addUserMessageBoxLink = ""
    /\ messageText = initialMessageText
    /\ messageBoxDisplay = initialMessageBoxDisplay
    /\ linkElmDisplay = initialLinkElmDisplay
    /\ clipboard = "(earlier clipboard content)"
    /\ requests = <<>>
    /\ renderLog = <<>>

\* Overlapping submissions: up to MaxSubmits submits, the username edited in
\* between, responses in any order.
Init ==
    InitWith({[protocol |-> "http:", host |-> "panel.example"]},
             {<<[name |-> "a", checked |-> TRUE], [name |-> "c", checked |-> TRUE]>>},
             Usernames, {<<"2">>})

Next ==
    \/ \E u \in Usernames : EditUsername(u)
    \/ submit(MaxSubmits)
    \/ \E r \in 1..Len(requests) : \E s \in Statuses : fetchFulfilled(r, s)
    \/ \E r \in 1..Len(requests) : fetchRejected(r)
    \/ \E r \in 1..Len(requests) : \E d \in FewData : jsonFulfilled(r, d)
    \/ \E r \in 1..Len(requests) : jsonRejected(r)
    \/ copyAddUserMessageLink

Spec == Init /\ [][Next]_vars

\* The same with the scheduling the browser guarantees: every promise of a
\* fetch chain settles, and a settled promise runs its continuation.
FetchSettles(r) ==
    /\ r \in 1..Len(requests)
    /\ \/ \E s \in Statuses : fetchFulfilled(r, s)
       \/ fetchRejected(r)

JsonSettles(r) ==
    /\ r \in 1..Len(requests)
    /\ \/ \E d \in FewData : jsonFulfilled(r, d)
       \/ jsonRejected(r)

SpecFair ==
    /\ Spec
    /\ \A r \in 1..MaxSubmits : WF_vars(FetchSettles(r)) /\ WF_vars(JsonSettles(r))

\* Overlapping submissions answered by any JSON object.
NextRender ==
    \/ \E u \in Usernames : EditUsername(u)
    \/ submit(MaxSubmits)
    \/ \E r \in 1..Len(requests) : fetchFulfilled(r, 200)
    \/ \E r \in 1..Len(requests) : \E d \in AllData : jsonFulfilled(r, d)

SpecRender == Init /\ [][NextRender]_vars

\* Overlapping submissions while the anti-forgery cookie changes.
NextCookie ==
    \/ \E t \in RotatedCsrfTokens : SetCookie(t)
    \/ submit(MaxSubmits)
    \/ \E r \in 1..Len(requests) : \E s \in Statuses : fetchFulfilled(r, s)
    \/ \E r \in 1..Len(requests) : fetchRejected(r)
    \/ \E r \in 1..Len(requests) : \E d \in FewData : jsonFulfilled(r, d)
    \/ \E r \in 1..Len(requests) : jsonRejected(r)

SpecCookie == Init /\ [][NextCookie]_vars

\* Overlapping submissions while every control of the form is edited.
FewPgroupValues == {<<"2">>, <<"1", "0">>}

NextForm ==
    \/ \E u \in Usernames : EditUsername(u)
    \/ \E p \in FewPgroupValues : EditPgroup(p)
    \/ \E i \in 1..Len(settingsBox) : ToggleSetting(i)
    \/ submit(MaxSubmits)
    \/ \E r \in 1..Len(requests) : fetchFulfilled(r, 200)

SpecForm == Init /\ [][NextForm]_vars

\* Submissions that do not overlap.
NextSequential ==
    \/ \E u \in Usernames : EditUsername(u)
    \/ submitWhenIdle
    \/ \E r \in 1..Len(requests) : \E s \in Statuses : fetchFulfilled(r, s)
    \/ \E r \in 1..Len(requests) : fetchRejected(r)
    \/ \E r \in 1..Len(requests) : \E d \in FewData : jsonFulfilled(r, d)
    \/ \E r \in 1..Len(requests) : jsonRejected(r)

SpecSequential == Init /\ [][NextSequential]_vars

\* One submission of any form on any page, answered by any response.
InitOne == InitWith(Locations, AllBoxes, Usernames, PgroupValues)

NextOne ==
    \/ submit(1)
    \/ \E r \in 1..Len(requests) : \E s \in Statuses : fetchFulfilled(r, s)
    \/ \E r \in 1..Len(requests) : fetchRejected(r)
    \/ \E r \in 1..Len(requests) : \E d \in AllData : jsonFulfilled(r, d)
    \/ \E r \in 1..Len(requests) : jsonRejected(r)
    \/ copyAddUserMessageLink

SpecOne == InitOne /\ [][NextOne]_vars

-----------------------------------------------------------------------------
(* Vocabulary of the properties.                                           *)

\* The step is the submit listener's: a request was appended.
SubmitStep == Len(requests') = Len(requests) + 1
NewRequest == requests'[Len(requests')]

\* The step is the one in which addUserSuccess ran for request r.
RenderStep(r) == requests[r].pc = "json" /\ requests'[r].pc = "done"

\* The step is the one in which request r failed in transport or parsing.
FailStep(r) ==
    /\ requests[r].pc \in {"fetch", "json"}
    /\ requests'[r].pc \in {"networkError", "parseError"}

IsSuccess(data) == data.success = Bool(TRUE)

RECURSIVE SumOf(_)
SumOf(S) == IF S = {} THEN 0 ELSE LET x == CHOOSE y \in S : TRUE IN x + SumOf(S \ {x})

\* The registry values of the controls of a box, and of its enabled controls.
RegisteredValues(box) ==
    {settingsValues[box[i].name] :
        i \in {j \in 1..Len(box) : box[j].name \in DOMAIN settingsValues}}
EnabledValues(box) ==
    {settingsValues[box[i].name] :
        i \in {j \in 1..Len(box) : box[j].checked /\ box[j].name \in DOMAIN settingsValues}}

\* Bit p (a power of two) is set in n.
HasBit(n, p) == (n \div p) % 2 = 1
BitValues == {1, 2, 4, 8, 16}

\* mask is the bitwise OR of the values in S: a bit is set in it exactly when
\* it is set in one of them.
IsOrOf(mask, S) ==
    /\ mask \in 0..31
    /\ \A p \in BitValues : HasBit(mask, p) <=> \E v \in S : HasBit(v, p)

\* The message of each known reason code, and the fallback.
ReasonMessages ==
    {<<"AlreadyExists", "Nutzername wird bereits verwendet.">>,
     <<"UsernameTooLong", "Nutzername muss kürzer sein.">>,
     <<"UsernameTooShort", "Nutzername muss länger sein.">>,
     <<"CannotBeNamedAnonymous", "Dein Nutzername kann nicht 'Anonymous' sein.">>,
     <<"UsernameInvalidCharacters",
       "Nutzername muss aus den Zeichen a-z, A-Z, 0-9, _ und - bestehen.">>}
FallbackMessage == "Konnte nicht erstellt werden."

\* text is the message the reason calls for.
IsMessageOf(text, reason) ==
    IF \E p \in ReasonMessages : reason = Str(p[1])
    THEN \E p \in ReasonMessages : reason = Str(p[1]) /\ text = p[2]
    ELSE text = FallbackMessage

\* The last request whose response was rendered as a Success, or 0.
LastSuccess ==
    LET S == {i \in 1..Len(renderLog) : IsSuccess(requests[renderLog[i]].data)}
    IN IF S = {} THEN 0 ELSE renderLog[CHOOSE i \in S : \A j \in S : j <= i]

LinkOf(token) == "https://" \o location.host \o "/register" \o "?user_slot=" \o token

-----------------------------------------------------------------------------
(* Properties.                                                             *)

\* C1: the mask a submit puts into its request is the bitwise OR of the
\* registry values of exactly the enabled controls, whatever the order of the
\* controls; it is 0 when none is enabled and the OR of the values of all
\* controls when all are enabled.
C1_MaskIsOrOfEnabled ==
    [][SubmitStep =>
          LET mask == NewRequest.body.settings IN
          /\ mask.t = "number"
          /\ IsOrOf(mask.v, EnabledValues(settingsBox))
          /\ (\A i \in 1..Len(settingsBox) : ~settingsBox[i].checked) => mask.v = 0
          /\ (\A i \in 1..Len(settingsBox) : settingsBox[i].checked)
                => IsOrOf(mask.v, RegisteredValues(settingsBox))]_vars

\* A submit found the controls in the order c, x, b, a with c and a enabled and
\* b not, and sent mask 5.
C1_Witness ==
    /\ requests # <<>>
    /\ Len(settingsBox) = 4
    /\ settingsBox[1] = [name |-> "c", checked |-> TRUE]
    /\ settingsBox[3] = [name |-> "b", checked |-> FALSE]
    /\ settingsBox[4] = [name |-> "a", checked |-> TRUE]
    /\ requests[1].body.settings = Num(5)

\* C2: a rendered Failure shows the message of its reason code and nothing
\* else decides the text: each of the five known codes has its own message,
\* the six texts are pairwise distinct, and every other reason (the empty
\* string, a missing reason) shows the fallback.
C2_FailureTextByReason ==
    [][\A r \in 1..Len(requests) :
          (RenderStep(r) /\ ~IsSuccess(requests'[r].data)) =>
              /\ IsMessageOf(messageText', requests'[r].data.reason)
              /\ Cardinality({p[2] : p \in ReasonMessages} \cup {FallbackMessage}) = 6
              /\ {p[1] : p \in ReasonMessages} = KnownReasons]_vars

\* A Failure without a reason was rendered after a Success had left its text
\* and link, and shows the fallback.
C2_Witness ==
    /\ Len(renderLog) = 2
    /\ IsSuccess(requests[renderLog[1]].data)
    /\ requests[renderLog[2]].data = FailureData(Undefined)
    /\ addUserMessageBoxLink # ""
    /\ messageText = FallbackMessage

\* C3: a rendered Success stores the link "https://" + host + registration
\* path + "?user_slot=" + token, whatever the scheme of the page, the token
\* unchanged.
C3_LinkOfSuccess ==
    [][\A r \in 1..Len(requests) :
          (RenderStep(r) /\ IsSuccess(requests'[r].data)
                         /\ requests'[r].data.slot.t = "string") =>
              addUserMessageBoxLink' = LinkOf(requests'[r].data.slot.v)]_vars

\* On a page served over http a token with URL-special characters was stored
\* in an https link, unchanged.
C3_Witness ==
    /\ location.protocol = "http:"
    /\ renderLog # <<>>
    /\ requests[1].data = SuccessData("a&b=/?")
    /\ addUserMessageBoxLink = "https://panel.example/register?user_slot=a&b=/?"

\* C4: the slot holds the username field as the most recent submit found it,
\* and a rendered Success shows that value followed by " was added.".
C4_SuccessTextFromSlot ==
    [][/\ SubmitStep => lastUsername' = Str(usernameInput)
       /\ ~SubmitStep => lastUsername' = lastUsername
       /\ \A r \in 1..Len(requests) :
             (RenderStep(r) /\ IsSuccess(requests'[r].data)) =>
                 messageText' = requests[Len(requests)].form.username \o " was added."]_vars

\* A Success was rendered for "alice" after the field had been changed to "bob".
C4_Witness ==
    /\ Len(requests) = 1
    /\ renderLog = <<1>>
    /\ IsSuccess(requests[1].data)
    /\ usernameInput = "bob"
    /\ messageText = "alice was added."

\* C5: the request body has exactly the fields username, permission_group and
\* settings: the username field, the permission-group control's value as an
\* integer, and the mask of the enabled controls, all as the submit found them.
C5_RequestBody ==
    [][SubmitStep =>
          /\ DOMAIN NewRequest.body = {"username", "permission_group", "settings"}
          /\ NewRequest.body.username = Str(usernameInput)
          /\ NewRequest.body.permission_group =
                Num(CASE pgroupInput = <<>> -> 0
                      [] pgroupInput = <<"2">> -> 2
                      [] pgroupInput = <<"1", "0">> -> 10)
          /\ NewRequest.body.settings = Num(SumOf(EnabledValues(settingsBox)))]_vars

\* Username "alice", group 2 and the controls with bits 1 and 4 enabled were
\* sent as username "alice", permission group 2, settings 5.
C5_Witness ==
    /\ requests # <<>>
    /\ requests[1].form.username = "alice"
    /\ requests[1].form.pgroup = <<"2">>
    /\ EnabledValues(requests[1].form.box) = {1, 4}
    /\ requests[1].body =
          [username |-> Str("alice"), permission_group |-> Num(2), settings |-> Num(5)]

\* C6: the slot always holds the username of the latest submit, also when an
\* earlier request is still outstanding; every response that arrived was
\* rendered once, in the order of arrival; and the text on screen is that of
\* the response that arrived last, a Success among them named after the latest
\* submit, whichever request it answers.
C6_LastResponseWins ==
    /\ requests # <<>> => lastUsername = Str(requests[Len(requests)].form.username)
    /\ \A i, j \in 1..Len(renderLog) : renderLog[i] = renderLog[j] => i = j
    /\ {renderLog[i] : i \in 1..Len(renderLog)}
          = {r \in 1..Len(requests) : requests[r].pc = "done"}
    /\ (renderLog # <<>> /\ messageText # "...") =>
          LET data == requests[renderLog[Len(renderLog)]].data IN
          IF IsSuccess(data)
          THEN messageText = requests[Len(requests)].form.username \o " was added."
          ELSE IsMessageOf(messageText, data.reason)

\* "alice" was submitted, then "bob" before any response; the response to the
\* second request arrived first, the Success for the first one last, and the
\* screen says that bob was added.
C6_Witness ==
    /\ Len(requests) = 2
    /\ requests[1].form.username = "alice"
    /\ requests[2].form.username = "bob"
    /\ renderLog = <<2, 1>>
    /\ IsSuccess(requests[1].data)
    /\ messageText = "bob was added."

\* C7: a copy puts on the clipboard the link of the most recently rendered
\* Success, the empty string if there was none, and changes nothing else.
C7_CopyLastLink ==
    [][clipboard' # clipboard =>
          /\ clipboard' = (IF LastSuccess = 0 THEN ""
                           ELSE LinkOf(requests[LastSuccess].data.slot.v))
          /\ UNCHANGED <<envVars, formVars, slotVars, uiVars, requests, renderLog>>]_vars

\* The Success for the first request was followed by a new submission and its
\* Failure, and the copy still gave the link of that Success.
C7_Witness ==
    /\ Len(requests) = 2
    /\ renderLog = <<1, 2>>
    /\ requests[1].data = SuccessData("abc123")
    /\ ~IsSuccess(requests[2].data)
    /\ messageText = "Nutzername muss kürzer sein."
    /\ clipboard = "https://panel.example/register?user_slot=abc123"

\* C8: the panel is hidden exactly until the first response is rendered, and
\* no step hides a visible panel.
C8_PanelStaysVisible ==
    /\ [](messageBoxDisplay = "none" <=> renderLog = <<>>)
    /\ [][messageBoxDisplay # "none" => messageBoxDisplay' # "none"]_vars

\* The panel is visible while a later submission shows its placeholder.
C8_Witness ==
    /\ renderLog # <<>>
    /\ Len(requests) = 2
    /\ requests[2].pc = "fetch"
    /\ messageText = "..."
    /\ messageBoxDisplay # "none"

\* C9 as stated: a request that ended in a non-2xx status, a non-JSON body or
\* a network error was never handed to the result handler.
C9_NoRenderOnTransportFailure ==
    \A r \in 1..Len(requests) :
        (requests[r].status = 400 \/ requests[r].pc \in {"networkError", "parseError"})
            => requests[r].pc # "done"

\* C9, amended: a request that ended in a network error or a non-JSON body
\* was never handed to the result handler, and the step in which it failed
\* left message text, panel, link and slot as they were; with no other
\* response rendered the text is still the placeholder and the link empty.
C9_NoRenderOnRejection ==
    /\ [](\A r \in 1..Len(requests) :
             requests[r].pc \in {"networkError", "parseError"} =>
                 /\ \A i \in 1..Len(renderLog) : renderLog[i] # r
                 /\ requests[r].data = Undefined)
    /\ [](requests # <<>> /\ renderLog = <<>> =>
             messageText = "..." /\ addUserMessageBoxLink = "")
    /\ [][\A r \in 1..Len(requests) :
             FailStep(r) => UNCHANGED <<uiVars, slotVars, renderLog>>]_vars

\* One request failed on the network, the other on its body, and the text
\* is still the placeholder.
C9_Witness ==
    /\ Len(requests) = 2
    /\ requests[1].pc = "networkError"
    /\ requests[2].pc = "parseError"
    /\ renderLog = <<>>
    /\ messageText = "..."

\* C10: a response object is rendered once, as a Success when its success
\* flag is true and as a Failure otherwise, and its request is then finished
\* for good; a submit is possible in every state; and every submission ends
\* rendered unless its response failed to arrive.
C10_SubmitRenderCycle ==
    /\ [][\A r \in 1..Len(requests) :
             /\ RenderStep(r) =>
                   /\ \A i \in 1..Len(renderLog) : renderLog[i] # r
                   /\ renderLog' = Append(renderLog, r)
                   /\ IF IsSuccess(requests'[r].data)
                      THEN messageText' = requests[Len(requests)].form.username
                                              \o " was added."
                      ELSE IsMessageOf(messageText', requests'[r].data.reason)
             /\ requests[r].pc = "done" => requests'[r] = requests[r]]_vars
    /\ [](Len(requests) < MaxSubmits => ENABLED submit(MaxSubmits))
    /\ \A r \in 1..MaxSubmits :
          (Len(requests) >= r) ~>
              (Len(requests) >= r
                  /\ requests[r].pc \in {"done", "networkError", "parseError"})

\* Both of two overlapping submissions were rendered, one as a Success and one
\* as a Failure.
C10_Witness ==
    /\ Len(requests) = 2
    /\ Len(renderLog) = 2
    /\ IsSuccess(requests[1].data)
    /\ ~IsSuccess(requests[2].data)
    /\ messageText = "Nutzername muss kürzer sein."

\* C11: a request is sent only by a submit, one per submit: it is a POST to
\* the add-user path whose anti-forgery header is the cookie's value at that
\* moment; no other step sends a request, and a request once sent is neither
\* sent again nor altered, whatever becomes of it.
C11_OnePostPerSubmit ==
    [][/\ Len(requests') # Len(requests) =>
             /\ SubmitStep
             /\ messageText' = "..."
             /\ lastUsername' = Str(usernameInput)
             /\ NewRequest.method = "POST"
             /\ NewRequest.url = "/add_user"
             /\ NewRequest.csrf = cookie
       /\ (messageText # "..." /\ messageText' = "...") => SubmitStep
       /\ \A r \in 1..Len(requests) :
             /\ r <= Len(requests')
             /\ requests'[r].csrf = requests[r].csrf
             /\ requests'[r].method = requests[r].method
             /\ requests'[r].url = requests[r].url
             /\ requests'[r].body = requests[r].body]_vars

\* The cookie changed between two submits: each request carries the token of
\* its own moment, and the first, lost on the network, was not sent again.
C11_Witness ==
    /\ Len(requests) = 2
    /\ requests[1].csrf = "csrf1"
    /\ requests[2].csrf = "csrf2"
    /\ requests[1].pc = "networkError"
    /\ cookie = "csrf1"

\* C12: a control whose name the registry does not hold adds nothing to the
\* mask, enabled or not: a bit is set in the mask exactly when an enabled
\* control is registered with that bit; and such a control does not stop the
\* submit, which sends its request.
C12_UnregisteredIgnored ==
    /\ [](requests = <<>> => ENABLED submit(1))
    /\ [][SubmitStep =>
             /\ NewRequest.pc = "fetch"
             /\ NewRequest.body.settings.t = "number"
             /\ NewRequest.body.settings.v \in 0..7
             /\ \A p \in BitValues :
                   HasBit(NewRequest.body.settings.v, p) <=>
                       \E i \in 1..Len(settingsBox) :
                           /\ settingsBox[i].checked
                           /\ settingsBox[i].name \in DOMAIN settingsValues
                           /\ settingsValues[settingsBox[i].name] = p]_vars

\* The unregistered control x was enabled and came first, a was enabled and b
\* was not: the request was sent with mask 1.
C12_Witness ==
    /\ Len(requests) = 1
    /\ Len(settingsBox) = 3
    /\ settingsBox[1] = [name |-> "x", checked |-> TRUE]
    /\ settingsBox[2] = [name |-> "a", checked |-> TRUE]
    /\ settingsBox[3] = [name |-> "b", checked |-> FALSE]
    /\ requests[1].body.settings = Num(1)

\* The integer a permission-group value stands for.
PgroupInteger(p) ==
    CASE p = <<>> -> 0
      [] p = <<"2">> -> 2
      [] p = <<"1", "0">> -> 10

\* C13: the body of every request is given by the form as its own submit
\* found it, and by nothing else: not by an earlier submission, and not by
\* what is done to the form afterwards, which leaves the request as sent.
C13_RequestFromOwnForm ==
    /\ [](\A r \in 1..Len(requests) :
             requests[r].body =
                 [username |-> Str(requests[r].form.username),
                  permission_group |-> Num(PgroupInteger(requests[r].form.pgroup)),
                  settings |-> Num(SumOf(EnabledValues(requests[r].form.box)))])
    /\ [][/\ SubmitStep =>
                NewRequest.form = [username |-> usernameInput, pgroup |-> pgroupInput,
                                   box |-> settingsBox]
          /\ \A r \in 1..Len(requests) :
                /\ requests'[r].body = requests[r].body
                /\ requests'[r].form = requests[r].form]_vars

\* Two requests are outstanding; they differ in username, group and mask, and
\* the form has since been changed in all three.
C13_Witness ==
    /\ Len(requests) = 2
    /\ requests[1].pc = "fetch"
    /\ requests[2].pc = "fetch"
    /\ requests[1].body =
          [username |-> Str("alice"), permission_group |-> Num(2), settings |-> Num(5)]
    /\ requests[2].body =
          [username |-> Str("bob"), permission_group |-> Num(10), settings |-> Num(4)]
    /\ usernameInput = "alice"
    /\ pgroupInput = <<"2">>
    /\ settingsValue(settingsBox) = 0

\* C14: a submit sets the text to the placeholder whatever it was, and the
\* text then changes only when a response is rendered: no other step
\* touches it.
C14_PlaceholderUntilRender ==
    [][/\ SubmitStep => messageText' = "..."
       /\ messageText' # messageText =>
             (SubmitStep \/ \E r \in 1..Len(requests) : RenderStep(r))
       /\ (messageText = "..." /\ ~\E r \in 1..Len(requests) : RenderStep(r))
             => messageText' = "..."]_vars

\* After a rendered Success a second submit put the placeholder over its
\* text; the response is on its way and the placeholder still stands.
C14_Witness ==
    /\ Len(requests) = 2
    /\ renderLog = <<1>>
    /\ IsSuccess(requests[1].data)
    /\ requests[2].pc = "json"
    /\ messageText = "..."

\* C15: when no submit happens while a request is outstanding, a rendered
\* Success names the username sent in the request it answers, also when the
\* username field was edited in between.
C15_SuccessNamesOwnRequest ==
    [][\A r \in 1..Len(requests) :
          (RenderStep(r) /\ IsSuccess(requests'[r].data)) =>
              messageText' = requests[r].body.username.v \o " was added."]_vars

\* Two submissions, one after the other, both succeeded; the second was sent
\* for "bob" and is announced so although the field reads "alice" again.
C15_Witness ==
    /\ Len(requests) = 2
    /\ renderLog = <<1, 2>>
    /\ IsSuccess(requests[1].data)
    /\ IsSuccess(requests[2].data)
    /\ requests[1].body.username = Str("alice")
    /\ requests[2].body.username = Str("bob")
    /\ usernameInput = "alice"
    /\ messageText = "bob was added."

\* C16 as stated: while the text is a Failure message or a placeholder, the
\* link element is not shown.
C16_LinkOnlyWhileSuccess ==
    (messageText = "..." \/ messageText \in {p[2] : p \in ReasonMessages}
                         \/ messageText = FallbackMessage)
        => linkElmDisplay = "none"

\* C16, amended: only a rendered Success changes the display of the link
\* element, and it shows it; from the first rendered Success on the element
\* is shown in every state, whatever the text says.
C16_LinkShownAfterSuccess ==
    /\ [](LastSuccess # 0 => linkElmDisplay = "")
    /\ [][linkElmDisplay' # linkElmDisplay =>
             /\ linkElmDisplay' = ""
             /\ \E r \in 1..Len(requests) :
                   RenderStep(r) /\ IsSuccess(requests'[r].data)]_vars

\* A Success was followed by a Failure: the text is the Failure's and the link
\* element is still shown.
C16_Witness ==
    /\ renderLog = <<1, 2>>
    /\ IsSuccess(requests[1].data)
    /\ ~IsSuccess(requests[2].data)
    /\ messageText = "Nutzername muss kürzer sein."
    /\ linkElmDisplay = ""

====
